---- MODULE Spec2Model ----
(***************************************************************************)
(* Droidspaces container bring-up: the syscall filter                      *)
(* (android_seccomp.c), the host GPU GID scan and the /etc/group           *)
(* reconciliation (hardware.c), and the guest identity files (network.c,   *)
(* android.c).  Each component has a specification of its own over the     *)
(* shared variables; the components it does not touch stay idle.           *)
(***************************************************************************)
EXTENDS Integers, Sequences, FiniteSets, TLC

VARIABLES
    \* ---- android_seccomp.c
    is_systemd,     \* argument of android_seccomp_setup
    kernel,         \* what get_kernel_version will answer: [ok, major, minor]
    filter,         \* the BPF program attached to the process (<<>>: none)
    seccomp_pc,     \* "start" before android_seccomp_setup, "done" after
    seccomp_ret,    \* return value of android_seccomp_setup
    sdata,          \* struct seccomp_data of the guest's last syscall
    verdict,        \* the filter's return value for sdata ("none" before)
    \* ---- hardware.c: scan_host_gpu_gids
    scan_pc,        \* "idle", "loop" (inside the for loop), "done" (returned)
    scan_i,         \* loop index i into gpu_devices (1-based)
    max_gids,       \* argument: capacity of the caller's array
    gids,           \* the caller's array gids[], Unset where never written
    count,          \* local count
    scan_ret,       \* return value
    first_owned,    \* history: per non-root GID, the first list position at
                    \* which stat() found an existing device it owns (0: none)
    \* ---- hardware.c: setup_gpu_groups
    gpu_gids,       \* argument gpu_gids[0 .. gid_count-1]
    etc_group,      \* the guest's /etc/group: [exists, data]
    group_tmp,      \* the guest's /etc/group.tmp: [exists, data]
    gg_runs,        \* calls of setup_gpu_groups made so far
    gg_ret,         \* return value of the last call
    gg_modified,    \* modified_count of the last call
    gg_fault,       \* the failure the environment answered the last call with
    gg_clean,       \* history: no call so far was answered with a failure
    orig_group,     \* history: /etc/group before the first call
    first_group,    \* history: /etc/group after the first call
    \* ---- network.c: fix_networking_rootfs, android.c
    cfg_hostname,   \* cfg->hostname
    android,        \* what is_android() answers (cached for the process)
    getprop,        \* what `getprop <name>` answers, per property
    net_pc,         \* "start" before fix_networking_rootfs, "done" after
    hostname_calls, \* the sethostname() calls made, in order
    etc_hostname,   \* the guest's /etc/hostname: [exists, data]
    etc_hosts,      \* the guest's /etc/hosts
    resolv_conf,    \* the guest's /etc/resolv.conf
    dns1,           \* local dns1[] when resolv.conf is composed
    dns2,           \* local dns2[]
    \* ---- environment.c
    environ,        \* the process environment: name -> value
    env_last,       \* the environment function called last ("none" before)
    env_runs,       \* calls of setup_container_env made so far
    env_orig,       \* history: the environment before the first call
    env_first,      \* history: the environment after the first call
    cfg_ttys,       \* cfg->ttys[0 .. tty_count-1].name
    etc_environment, \* the guest's /etc/environment: [exists, data]
    \* ---- mount.c, terminal.c
    hw_access,      \* cfg->hw_access
    tty_count,      \* cfg->tty_count
    dev,            \* <rootfs>/dev: name -> what is at that path
    mnt_ran,        \* the setup steps that have returned
    mnt_ret,        \* return value of each step
    mnt_fatal,      \* history: the steps in which a mount(2) failed with an
                    \* errno other than EBUSY
    mnt_busy,       \* history: the steps in which a mount(2) answered EBUSY
    cg_mounts,      \* what setup_cgroups mounted: <<path, fstype>>, in order
    tty_notarget,   \* the i for which /dev/tty<i> was missing at its bind mount
    tty_bound,      \* the i for which ttys[i-1] is bound on /dev/tty<i>
    \* ---- hardware.c: setup_hardware_access
    termux_x11,     \* cfg->termux_x11
    hwa_pc,         \* "start" before setup_hardware_access, "done" after
    hwa_ret,        \* return value of setup_hardware_access
    x11_calls,      \* calls of setup_x11_and_virgl_sockets made so far
    x11_ret,        \* return value of the last of them
    x11_mounted,    \* what the socket bridge bound into the guest ("": nothing)
    \* ---- the bring-up pipeline
    boot_stage,     \* index into BootOrder of the stage to run next
    pivoted,        \* pivot_root has been done
    scanned_late,   \* history: the scan ran, in part or whole, after pivot_root
    recon_early     \* history: setup_hardware_access ran before pivot_root

seccompVars == <<is_systemd, kernel, filter, seccomp_pc, seccomp_ret, sdata, verdict>>

scanVars == <<scan_pc, scan_i, max_gids, gids, count, scan_ret, first_owned>>

groupVars == <<gpu_gids, etc_group, group_tmp, gg_runs, gg_ret, gg_modified,
               gg_fault, gg_clean, orig_group, first_group>>

netVars == <<cfg_hostname, android, getprop, net_pc, hostname_calls,
             etc_hostname, etc_hosts, resolv_conf, dns1, dns2>>

envVars == <<environ, env_last, env_runs, env_orig, env_first, cfg_ttys,
             etc_environment>>

mountVars == <<hw_access, tty_count, dev, mnt_ran, mnt_ret, mnt_fatal, mnt_busy,
               cg_mounts, tty_notarget, tty_bound>>

hwVars == <<termux_x11, hwa_pc, hwa_ret, x11_calls, x11_ret, x11_mounted>>

bootVars == <<boot_stage, pivoted, scanned_late, recon_early>>

vars == <<seccompVars, scanVars, groupVars, netVars, envVars, mountVars, hwVars,
          bootVars>>

--------------------------------------------------------------------------
(* Bounds of the model *)

\* kernel majors get_kernel_version may report: 3 .. MaxMajor
MaxMajor == 6
\* capacities max_gids the caller may pass to scan_host_gpu_gids: 0 .. MaxGidsCap
MaxGidsCap == 3
\* lines of the initial /etc/group: 0 .. MaxLines
MaxLines == 2
\* calls of setup_gpu_groups in one run of the model
MaxRuns == 2
\* calls of setup_container_env in one run of the model
MaxEnvCalls == 2
\* lines of /etc/environment: 0 .. MaxEnvLines
MaxEnvLines == 2
\* auxiliary TTYs of a configuration (cfg->tty_count): 0 .. MaxTtys
MaxTtys == 6
\* entries of devices[] for which mknod fails in one create_devices call
MaxDevFaults == 2

--------------------------------------------------------------------------
(* 32-bit words *)

RECURSIVE BitAnd(_, _)
\* a & b on non-negative words
BitAnd(a, b) ==
    IF a = 0 \/ b = 0 THEN 0
    ELSE (a % 2) * (b % 2) + 2 * BitAnd(a \div 2, b \div 2)

--------------------------------------------------------------------------
(* android_seccomp.c: the filter *)

\* const uint32_t ns_mask = 0x7E020000
ns_mask == 2114060288

\* BPF_STMT(BPF_LD | BPF_W | BPF_ABS, offsetof(struct seccomp_data, field))
BPF_LD(field) == [code |-> "LD", k |-> field]
\* BPF_JUMP(BPF_JMP | BPF_JEQ | BPF_K, k, jt, jf)
BPF_JEQ(k, jt, jf) == [code |-> "JEQ", k |-> k, jt |-> jt, jf |-> jf]
\* BPF_JUMP(BPF_JMP | BPF_JSET | BPF_K, k, jt, jf)
BPF_JSET(k, jt, jf) == [code |-> "JSET", k |-> k, jt |-> jt, jf |-> jf]
\* BPF_JUMP(BPF_JMP | BPF_JA, k, 0, 0)
BPF_JA(k) == [code |-> "JA", k |-> k]
\* BPF_STMT(BPF_RET | BPF_K, k)
BPF_RET(k) == [code |-> "RET", k |-> k]

SECCOMP_RET_ALLOW == "ALLOW"
SECCOMP_RET_TRAP == "TRAP"
RET_ENOSYS == "ERRNO(ENOSYS)"
RET_EPERM == "ERRNO(EPERM)"

\* [0]-[1]: load and validate the architecture; a foreign one is allowed
ArchCheck ==
    << BPF_LD("arch"),
       BPF_JEQ("native", 1, 0),
       BPF_RET(SECCOMP_RET_ALLOW) >>

\* a reboot trap whose jump offsets are exchanged
TrapRebootSwapped ==
    << BPF_JEQ("reboot", 1, 0),
       BPF_RET(SECCOMP_RET_TRAP) >>

\* [3]: trap reboot(2)
TrapReboot ==
    << BPF_JEQ("reboot", 0, 1),
       BPF_RET(SECCOMP_RET_TRAP) >>

\* [4]: keyctl, add_key, request_key give ENOSYS
FilterKeyring ==
    << BPF_JEQ("keyctl", 0, 1),
       BPF_RET(RET_ENOSYS),
       BPF_JEQ("add_key", 0, 1),
       BPF_RET(RET_ENOSYS),
       BPF_JEQ("request_key", 0, 1),
       BPF_RET(RET_ENOSYS) >>

\* a jump that looks at the kernel version only
NsSkipAnyInit(systemd, major) == IF major < 5 THEN 0 ELSE 5

\* [5]: (uint16_t)((is_systemd && major < 5) ? 0 : 5)
NsSkip(systemd, major) == IF systemd /\ major < 5 THEN 0 ELSE 5

\* [6]: unshare and clone give EPERM when args[0] meets ns_mask
FilterNamespaces ==
    << BPF_JEQ("unshare", 1, 0),
       BPF_JEQ("clone", 0, 3),
       BPF_LD("arg0"),
       BPF_JSET(ns_mask, 0, 1),
       BPF_RET(RET_EPERM) >>

\* struct sock_filter filter[] of android_seccomp_setup
BuildFilter(systemd, major) ==
    ArchCheck
    \o << BPF_LD("nr") >>
    \o TrapReboot
    \o FilterKeyring
    \o << BPF_JA(NsSkip(systemd, major)) >>
    \o FilterNamespaces
    \o << BPF_RET(SECCOMP_RET_ALLOW) >>

\* the word a BPF_LD | BPF_W | BPF_ABS reads from struct seccomp_data: args[0]
\* is 64 bits wide and the load takes its low word
LoadWord(data, field) ==
    CASE field = "arch" -> data.arch
      [] field = "nr" -> data.nr
      [] field = "arg0" -> data.arg0.lo

RECURSIVE RunBPF(_, _, _, _)
\* the kernel's interpretation of a classic BPF program: pc is 1-based, A the
\* accumulator; running off the end of the program cannot happen for a program
\* the kernel accepted and is reported as "INVALID"
RunBPF(prog, data, pc, A) ==
    IF pc > Len(prog) THEN "INVALID"
    ELSE LET ins == prog[pc] IN
         CASE ins.code = "LD" -> RunBPF(prog, data, pc + 1, LoadWord(data, ins.k))
           [] ins.code = "JEQ" ->
                RunBPF(prog, data, pc + 1 + (IF A = ins.k THEN ins.jt ELSE ins.jf), A)
           [] ins.code = "JSET" ->
                RunBPF(prog, data,
                       pc + 1 + (IF BitAnd(A, ins.k) # 0 THEN ins.jt ELSE ins.jf), A)
           [] ins.code = "JA" -> RunBPF(prog, data, pc + 1 + ins.k, A)
           [] ins.code = "RET" -> ins.k

\* int major = 0, minor = 0; get_kernel_version(&major, &minor): a failing call
\* leaves the outputs as they were
MajorAfterProbe(k) == IF k.ok THEN k.major ELSE 0

Arches == {"native", "foreign"}
Syscalls == {"reboot", "keyctl", "add_key", "request_key", "unshare", "clone",
             "read", "mount"}
\* first arguments a guest passes: 0, SIGCHLD, CLONE_VM, CLONE_NEWNS,
\* CLONE_NEWNS | SIGCHLD, CLONE_NEWUSER, CLONE_NEWNET | CLONE_NEWPID, ns_mask
LowWords == {0, 17, 256, 131072, 131089, 268435456, 1610612736, ns_mask}
\* the high word of a 64-bit argument
HighWords == {0, 1}

KernelAnswers ==
    {[ok |-> TRUE, major |-> mj, minor |-> mn] : mj \in 3..MaxMajor, mn \in {0, 14}}
    \cup {[ok |-> FALSE, major |-> 0, minor |-> 0]}

NoData == [arch |-> "none", nr |-> "none", arg0 |-> [hi |-> 0, lo |-> 0]]

SeccompInit ==
    /\ is_systemd \in BOOLEAN
    /\ kernel \in KernelAnswers
    /\ filter = <<>>
    /\ seccomp_pc = "start"
    /\ seccomp_ret = 0
    /\ sdata = NoData
    /\ verdict = "none"

\* android_seccomp_setup(is_systemd): prctl(PR_SET_SECCOMP, ...) attaches the
\* filter, or fails and leaves the process unfiltered
AndroidSeccompSetup ==
    /\ seccomp_pc = "start"
    /\ seccomp_pc' = "done"
    /\ \E prctl_ok \in BOOLEAN :
         IF prctl_ok
         THEN /\ filter' = BuildFilter(is_systemd, MajorAfterProbe(kernel))
              /\ seccomp_ret' = 0
         ELSE /\ filter' = filter
              /\ seccomp_ret' = -1
    /\ UNCHANGED <<is_systemd, kernel, sdata, verdict>>

\* the guest issues a system call under the attached filter
GuestSyscall ==
    /\ seccomp_pc = "done"
    /\ seccomp_ret = 0
    /\ \E a \in Arches, n \in Syscalls, lo \in LowWords, hi \in HighWords :
         /\ sdata' = [arch |-> a, nr |-> n, arg0 |-> [hi |-> hi, lo |-> lo]]
         /\ verdict' = RunBPF(filter, sdata', 1, 0)
    /\ UNCHANGED <<is_systemd, kernel, filter, seccomp_pc, seccomp_ret>>

\* the filter is not part of the run
SeccompIdle ==
    /\ is_systemd = FALSE
    /\ kernel = [ok |-> FALSE, major |-> 0, minor |-> 0]
    /\ filter = <<>>
    /\ seccomp_pc = "idle"
    /\ seccomp_ret = 0
    /\ sdata = NoData
    /\ verdict = "none"

--------------------------------------------------------------------------
(* hardware.c: scan_host_gpu_gids *)

\* const char *gpu_devices[]
gpu_devices ==
    << "/dev/dri/renderD128", "/dev/dri/renderD129", "/dev/dri/renderD130",
       "/dev/dri/card0", "/dev/dri/card1", "/dev/dri/card2",
       "/dev/nvidia0", "/dev/nvidia1", "/dev/nvidia2", "/dev/nvidiactl",
       "/dev/nvidia-uvm", "/dev/nvidia-uvm-tools", "/dev/nvidia-modeset",
       "/dev/nvidia-caps/nvidia-cap1", "/dev/nvidia-caps/nvidia-cap2",
       "/dev/mali0", "/dev/mali", "/dev/mali1",
       "/dev/kgsl-3d0", "/dev/kgsl", "/dev/genlock",
       "/dev/kfd",
       "/dev/pvr_sync",
       "/dev/nvhost-ctrl", "/dev/nvhost-gpu", "/dev/nvmap",
       "/dev/dma_heap/system", "/dev/dma_heap/linux,cma",
       "/dev/dma_heap/reserved", "/dev/dma_heap/qcom,system",
       "/dev/sw_sync" >>

\* group owners (st_gid) the host's device nodes may have
HostGids == {0, 44, 240}

\* a slot of the caller's array the scan has not written
Unset == -1

\* if (gid == 0) continue
SkipRootGroup(gid) == gid = 0

\* a de-duplication that looks at the last collected GID only
IsDuplicateOfLast(arr, cnt, gid) == cnt > 0 /\ arr[cnt] = gid

\* for (j = 0; j < count; j++) if (gids[j] == gid) duplicate = 1
IsDuplicate(arr, cnt, gid) == \E j \in 1..cnt : arr[j] = gid

ScanInit ==
    /\ scan_pc = "loop"
    /\ scan_i = 1
    /\ max_gids \in 0..MaxGidsCap
    /\ gids = [j \in 1..max_gids |-> Unset]
    /\ count = 0
    /\ scan_ret = 0
    /\ first_owned = [g \in HostGids \ {0} |-> 0]

\* one iteration of the for loop: stat(gpu_devices[i]) fails, or answers the
\* node's group owner
ScanStep ==
    /\ scan_pc = "loop"
    /\ scan_i <= Len(gpu_devices)
    /\ \E exists \in BOOLEAN, gid \in HostGids :
         /\ first_owned' =
                IF exists /\ gid # 0 /\ first_owned[gid] = 0
                THEN [first_owned EXCEPT ![gid] = scan_i]
                ELSE first_owned
         /\ IF /\ exists
               /\ ~SkipRootGroup(gid)
               /\ ~IsDuplicate(gids, count, gid)
               /\ count < max_gids
            THEN /\ gids' = [gids EXCEPT ![count + 1] = gid]
                 /\ count' = count + 1
            ELSE UNCHANGED <<gids, count>>
    /\ scan_i' = scan_i + 1
    /\ UNCHANGED <<scan_pc, max_gids, scan_ret>>

\* gpu_devices[i] == NULL ends the loop: return count
ScanReturn ==
    /\ scan_pc = "loop"
    /\ scan_i > Len(gpu_devices)
    /\ scan_pc' = "done"
    /\ scan_ret' = count
    /\ UNCHANGED <<scan_i, max_gids, gids, count, first_owned>>

\* the scan is not part of the run
ScanIdle ==
    /\ scan_pc = "idle"
    /\ scan_i = 1
    /\ max_gids = 0
    /\ gids = <<>>
    /\ count = 0
    /\ scan_ret = 0
    /\ first_owned = [g \in HostGids \ {0} |-> 0]

--------------------------------------------------------------------------
(* Text: a string of C is a sequence of one-character strings *)

Min(S) == CHOOSE x \in S : \A y \in S : x <= y

\* strchr: the first position >= from at which c stands, 0 if none
IndexOf(str, c, from) ==
    LET S == {i \in from..Len(str) : str[i] = c}
    IN IF S = {} THEN 0 ELSE Min(S)

\* strstr: the first position >= from at which needle starts, 0 if none
StrStr(str, needle, from) ==
    LET S == {i \in from..(Len(str) - Len(needle) + 1) :
                 SubSeq(str, i, i + Len(needle) - 1) = needle}
    IN IF S = {} THEN 0 ELSE Min(S)

DigitChars == <<"0", "1", "2", "3", "4", "5", "6", "7", "8", "9">>

DigitValue(c) == IndexOf(DigitChars, c, 1) - 1

IsDigit(c) == IndexOf(DigitChars, c, 1) # 0

IsSpace(c) == c \in {" ", "\t", "\n", "\r", "\f"}

RECURSIVE FormatD(_)
\* printf("%d") of a non-negative int
FormatD(n) ==
    IF n < 10 THEN <<DigitChars[n + 1]>>
    ELSE FormatD(n \div 10) \o <<DigitChars[(n % 10) + 1]>>

RECURSIVE AtoiDigits(_, _, _)
AtoiDigits(str, i, acc) ==
    IF i <= Len(str) /\ IsDigit(str[i])
    THEN AtoiDigits(str, i + 1, acc * 10 + DigitValue(str[i]))
    ELSE acc

RECURSIVE SkipSpace(_, _)
SkipSpace(str, i) ==
    IF i <= Len(str) /\ IsSpace(str[i]) THEN SkipSpace(str, i + 1) ELSE i

\* atoi: white space, an optional sign, then digits up to the first non-digit
atoi(str) ==
    LET i == SkipSpace(str, 1)
    IN IF i <= Len(str) /\ str[i] = "-" THEN 0 - AtoiDigits(str, i + 1, 0)
       ELSE IF i <= Len(str) /\ str[i] = "+" THEN AtoiDigits(str, i + 1, 0)
       ELSE AtoiDigits(str, i, 0)

--------------------------------------------------------------------------
(* hardware.c: setup_gpu_groups *)

\* char line[2048]
LineSize == 2048

ROOT == <<"r", "o", "o", "t">>

NoFile == [exists |-> FALSE, data |-> <<>>]

File(data) == [exists |-> TRUE, data |-> data]

\* fgets(line, sizeof(line), fin): the length of the next chunk, which ends
\* after the first newline or after sizeof(line) - 1 characters
FgetsLen(data) ==
    LET lim == IF Len(data) < LineSize - 1 THEN Len(data) ELSE LineSize - 1
        nl == IndexOf(data, "\n", 1)
    IN IF nl # 0 /\ nl <= lim THEN nl ELSE lim

RECURSIVE FgetsAll(_)
\* the chunks the while (fgets(...)) loop sees, in order
FgetsAll(data) ==
    IF data = <<>> THEN <<>>
    ELSE LET n == FgetsLen(data)
         IN <<SubSeq(data, 1, n)>> \o FgetsAll(SubSeq(data, n + 1, Len(data)))

RECURSIVE has_user_from(_, _, _)
\* the while ((p = strstr(p, username)) != NULL) loop of has_user
has_user_from(users, username, p) ==
    LET q == StrStr(users, username, p)
        len == Len(username)
    IN IF q = 0 THEN FALSE
       ELSE LET at_start == q = 1
                prev_comma == q > 1 /\ users[q - 1] = ","
                next_comma == q + len > Len(users) \/ users[q + len] = ","
            IN IF (at_start \/ prev_comma) /\ next_comma THEN TRUE
               ELSE has_user_from(users, username, q + 1)

\* static int has_user(const char *users, const char *username)
has_user(users, username) == has_user_from(users, username, 1)

\* the index (1-based) of the first probed GID equal to gid_val, 0 for
\* gpu_idx == -1
GpuIdx(gids_arg, gid_val) ==
    LET S == {i \in 1..Len(gids_arg) : gids_arg[i] = gid_val}
    IN IF S = {} THEN 0 ELSE Min(S)

\* one pass of the while loop body on a chunk: what is written to fout, the
\* probed GID found (0: none) and whether modified_count is incremented
ProcessLine(line, gids_arg) ==
    LET copied == SubSeq(line, 1, IF Len(line) < LineSize - 1 THEN Len(line)
                                   ELSE LineSize - 1)
        nl == IndexOf(copied, "\n", 1)
        line_copy == IF nl # 0 THEN SubSeq(copied, 1, nl - 1) ELSE copied
        c1 == IndexOf(line_copy, ":", 1)
        c2 == IF c1 = 0 THEN 0 ELSE IndexOf(line_copy, ":", c1 + 1)
        c3 == IF c2 = 0 THEN 0 ELSE IndexOf(line_copy, ":", c2 + 1)
        asis == [out |-> line, found |-> 0, modified |-> FALSE]
    IN IF c3 = 0 THEN asis
       ELSE LET gid_str == SubSeq(line_copy, c2 + 1, c3 - 1)
                users_ptr == SubSeq(line_copy, c3 + 1, Len(line_copy))
                prefix == SubSeq(line_copy, 1, c3 - 1)
                gid_val == atoi(gid_str)
                gpu_idx == GpuIdx(gids_arg, gid_val)
            IN IF gpu_idx = 0 THEN asis
               ELSE IF has_user(users_ptr, ROOT)
                    THEN [asis EXCEPT !.found = gpu_idx]
               ELSE IF Len(users_ptr) > 0
                    THEN [out |-> prefix \o <<":">> \o users_ptr \o <<",">>
                                  \o ROOT \o <<"\n">>,
                          found |-> gpu_idx, modified |-> TRUE]
               ELSE [out |-> prefix \o <<":">> \o ROOT \o <<"\n">>,
                     found |-> gpu_idx, modified |-> TRUE]

RECURSIVE RewriteLines(_, _, _)
\* the while loop: the text written to fout, found_gids and modified_count
RewriteLines(chunks, gids_arg, acc) ==
    IF chunks = <<>> THEN acc
    ELSE LET r == ProcessLine(Head(chunks), gids_arg)
         IN RewriteLines(Tail(chunks), gids_arg,
               [out |-> acc.out \o r.out,
                found |-> IF r.found = 0 THEN acc.found
                          ELSE acc.found \cup {r.found},
                modified |-> acc.modified + (IF r.modified THEN 1 ELSE 0)])

\* fprintf(fout, "gpu_%d:x:%d:root\n", gid, gid)
GpuLine(gid) ==
    <<"g", "p", "u", "_">> \o FormatD(gid) \o <<":", "x", ":">> \o FormatD(gid)
    \o <<":">> \o ROOT \o <<"\n">>

RECURSIVE AppendMissing(_, _, _, _)
\* the for loop appending the groups of the GIDs not found, from index i on
AppendMissing(gids_arg, found, i, acc) ==
    IF i > Len(gids_arg) THEN acc
    ELSE IF i \in found THEN AppendMissing(gids_arg, found, i + 1, acc)
    ELSE AppendMissing(gids_arg, found, i + 1,
            [out |-> acc.out \o GpuLine(gids_arg[i]),
             modified |-> acc.modified + 1])

\* what setup_gpu_groups has written to /etc/group.tmp when it closes it, and
\* its modified_count
Rewritten(data, gids_arg) ==
    LET w == RewriteLines(FgetsAll(data), gids_arg,
                          [out |-> <<>>, found |-> {}, modified |-> 0])
    IN AppendMissing(gids_arg, w.found, 1,
                     [out |-> w.out, modified |-> w.modified])

\* failures the environment may answer a call with; "write": an fputs,
\* fprintf or fclose on fout fails and only part of the output reaches the
\* temporary file
Faults == {"none", "fopen_r", "fopen_w", "calloc", "write", "rename"}

\* what the temporary file may hold after a failed write of out: nothing,
\* the first half, or all but the last character
ShortWrites(out) ==
    {SubSeq(out, 1, k) : k \in {0, Len(out) \div 2, Len(out) - 1}}

\* sequences of unique non-root GIDs, as scan_host_gpu_gids hands them over
ProbedGids == {<<>>, <<44>>, <<240>>, <<44, 240>>, <<240, 44>>}

GroupRecord(name, gidstr, users) ==
    name \o <<":", "x", ":">> \o gidstr \o <<":">> \o users

UserLists ==
    { <<>>, ROOT, <<"a">>, <<"a", ",">> \o ROOT,
      <<"c", "h">> \o ROOT, ROOT \o <<"l", "e", "s", "s", ",", "a">> }

\* lines an initial /etc/group is made of (without their newline): records of
\* a probed and of an unprobed GID, a record of three fields, an empty line
LinePool ==
    {GroupRecord(<<"v">>, <<"4", "4">>, u) : u \in UserLists}
    \cup {GroupRecord(<<"n">>, <<"4">>, u) : u \in {<<>>, ROOT}}
    \cup {GroupRecord(<<"w">>, <<"2", "4", "0">>, <<"a">>)}
    \cup {<<"s", ":", "x", ":", "4", "4">>, <<>>}

RECURSIVE JoinLines(_, _)
\* the lines, each followed by a newline; the last one only if trailing
JoinLines(ls, trailing) ==
    IF ls = <<>> THEN <<>>
    ELSE IF Len(ls) = 1 THEN Head(ls) \o (IF trailing THEN <<"\n">> ELSE <<>>)
    ELSE Head(ls) \o <<"\n">> \o JoinLines(Tail(ls), trailing)

RECURSIVE SeqsUpTo(_, _)
SeqsUpTo(S, n) ==
    IF n = 0 THEN {<<>>}
    ELSE LET shorter == SeqsUpTo(S, n - 1)
         IN shorter \cup {Append(q, x) : q \in shorter, x \in S}

InitialGroupFiles ==
    {File(JoinLines(ls, t)) : ls \in SeqsUpTo(LinePool, MaxLines), t \in BOOLEAN}
    \cup {NoFile}

GroupsInit ==
    /\ gpu_gids \in ProbedGids
    /\ etc_group \in InitialGroupFiles
    /\ group_tmp = NoFile
    /\ gg_runs = 0
    /\ gg_ret = 0
    /\ gg_modified = 0
    /\ gg_fault = "none"
    /\ gg_clean = TRUE
    /\ orig_group = etc_group
    /\ first_group = etc_group

\* int setup_gpu_groups(gid_t *gpu_gids, int gid_count), one whole call
SetupGpuGroups ==
    /\ gg_runs < MaxRuns
    /\ gg_runs' = gg_runs + 1
    /\ \E fault \in Faults :
         /\ gg_fault' = fault
         /\ gg_clean' = (gg_clean /\ fault = "none")
         /\ IF Len(gpu_gids) <= 0 \/ ~etc_group.exists
            THEN \* gid_count <= 0, or access("/etc/group", F_OK) != 0
                 /\ gg_ret' = 0
                 /\ gg_modified' = 0
                 /\ UNCHANGED <<etc_group, group_tmp>>
            ELSE IF fault \in {"fopen_r", "fopen_w"}
            THEN /\ gg_ret' = -1
                 /\ gg_modified' = 0
                 /\ UNCHANGED <<etc_group, group_tmp>>
            ELSE IF fault = "calloc"
            THEN \* fopen(tmp_path, "w") has created or truncated the file
                 /\ gg_ret' = -1
                 /\ gg_modified' = 0
                 /\ group_tmp' = File(<<>>)
                 /\ UNCHANGED etc_group
            ELSE LET w == Rewritten(etc_group.data, gpu_gids)
                 IN \* no result of fputs, fprintf or fclose is looked at
                    \E written \in (IF fault = "write" THEN ShortWrites(w.out)
                                    ELSE {w.out}) :
                      /\ gg_modified' = w.modified
                      /\ group_tmp' = NoFile    \* renamed, or unlinked
                      /\ IF w.modified > 0
                         THEN IF fault = "rename"
                              THEN gg_ret' = -1 /\ UNCHANGED etc_group
                              ELSE gg_ret' = 0 /\ etc_group' = File(written)
                         ELSE gg_ret' = 0 /\ UNCHANGED etc_group
    /\ first_group' = IF gg_runs = 0 THEN etc_group' ELSE first_group
    /\ UNCHANGED <<gpu_gids, orig_group>>

\* the group reconciliation is not part of the run
GroupsIdle ==
    /\ gpu_gids = <<>>
    /\ etc_group = NoFile
    /\ group_tmp = NoFile
    /\ gg_runs = 0
    /\ gg_ret = 0
    /\ gg_modified = 0
    /\ gg_fault = "none"
    /\ gg_clean = TRUE
    /\ orig_group = NoFile
    /\ first_group = NoFile

--------------------------------------------------------------------------
(* android.c: android_fill_dns_from_props *)

\* const char *props[]
props ==
    << "net.dns1", "net.dns2", "net.eth0.dns1", "net.eth0.dns2",
       "net.wlan0.dns1", "net.wlan0.dns2" >>

\* popen("getprop <name>") and fgets into buf: a failing popen, or a command
\* that prints nothing, leaves buf as it was; otherwise buf is the printed
\* line without its newline
ReadProp(answers, name, buf) ==
    IF answers[name].ok THEN answers[name].value ELSE buf

RECURSIVE FillDnsLoop(_, _, _, _)
\* for (i = 0; props[i] && !dns1[0]; i += 2), i counted from 1
FillDnsLoop(answers, i, d1, d2) ==
    IF i > Len(props) \/ d1 # "" THEN [dns1 |-> d1, dns2 |-> d2]
    ELSE LET n1 == ReadProp(answers, props[i], d1)
             n2 == IF n1 # "" /\ i + 1 <= Len(props)
                   THEN ReadProp(answers, props[i + 1], d2)
                   ELSE d2
         IN FillDnsLoop(answers, i + 2, n1, n2)

\* int android_fill_dns_from_props(char *dns1, char *dns2, size_t size)
android_fill_dns_from_props(is_android, answers, d1, d2) ==
    IF ~is_android THEN [dns1 |-> d1, dns2 |-> d2, ret |-> -1]
    ELSE LET r == FillDnsLoop(answers, 1, "", "")
         IN [dns1 |-> r.dns1, dns2 |-> r.dns2,
             ret |-> IF r.dns1 # "" THEN 0 ELSE -1]

--------------------------------------------------------------------------
(* network.c: fix_networking_rootfs *)

\* write_file(path, content): the file holds content afterwards
write_file(content) == [exists |-> TRUE, data |-> content]

NoTextFile == [exists |-> FALSE, data |-> ""]

\* snprintf(hosts_content, ...)
HostsContent(hostname) ==
    "127.0.0.1\tlocalhost\n"
    \o "::1\t\tlocalhost ip6-localhost ip6-loopback\n"
    \o "127.0.1.1\t" \o hostname \o "\n"

\* snprintf(resolv_content, ...)
ResolvContent(d1, d2) ==
    IF d2 # "" THEN "nameserver " \o d1 \o "\nnameserver " \o d2 \o "\n"
    ELSE "nameserver " \o d1 \o "\n"

\* "aid_inet"
AidInet == <<"a", "i", "d", "_", "i", "n", "e", "t">>

\* "aid_inet:x:3003:\naid_net_raw:x:3004:\naid_net_admin:x:3005:\n"
AidGroupLines ==
    <<"a", "i", "d", "_", "i", "n", "e", "t", ":", "x", ":", "3", "0", "0",
       "3", ":", "\n", "a", "i", "d", "_", "n", "e", "t", "_", "r", "a",
       "w", ":", "x", ":", "3", "0", "0", "4", ":", "\n", "a", "i", "d",
       "_", "n", "e", "t", "_", "a", "d", "m", "i", "n", ":", "x", ":",
       "3", "0", "0", "5", ":", "\n" >>

\* grep_file(path, pattern): the file has a line containing pattern
grep_file(f, pattern) == StrStr(f.data, pattern, 1) # 0

Hostnames == {"", "box"}

PropAnswers(name) ==
    { [ok |-> FALSE, value |-> ""], [ok |-> TRUE, value |-> ""],
      [ok |-> TRUE, value |-> "10.0.0." \o (IF name \in {"net.dns1", "net.eth0.dns1", "net.wlan0.dns1"} THEN "1" ELSE "2")] }

PropNames == {props[i] : i \in 1..Len(props)}

\* /etc/group as fix_networking_rootfs may find it
NetGroupFiles ==
    { NoFile, File(<<>>),
      File(GroupRecord(<<"v">>, <<"4", "4">>, <<>>) \o <<"\n">>),
      File(GroupRecord(<<"v">>, <<"4", "4">>, <<>>)),
      File(AidGroupLines) }

NetInit ==
    /\ cfg_hostname \in Hostnames
    /\ android \in BOOLEAN
    /\ getprop \in [PropNames -> UNION {PropAnswers(n) : n \in PropNames}]
    /\ \A n \in PropNames : getprop[n] \in PropAnswers(n)
    /\ ~android => \A n \in PropNames : ~getprop[n].ok
    /\ net_pc = "start"
    /\ hostname_calls = <<>>
    /\ etc_hostname = NoTextFile
    /\ etc_hosts = NoTextFile
    /\ resolv_conf = NoTextFile
    /\ dns1 = ""
    /\ dns2 = ""
    /\ etc_group \in NetGroupFiles

\* int fix_networking_rootfs(struct ds_config *cfg), one whole call
FixNetworkingRootfs ==
    /\ net_pc = "start"
    /\ net_pc' = "done"
    /\ IF cfg_hostname # ""
       THEN /\ hostname_calls' = Append(hostname_calls, cfg_hostname)
            /\ etc_hostname' = write_file(cfg_hostname \o "\n")
       ELSE UNCHANGED <<hostname_calls, etc_hostname>>
    /\ etc_hosts' = write_file(HostsContent(cfg_hostname))
    /\ LET r == android_fill_dns_from_props(android, getprop, "8.8.8.8", "8.8.4.4")
       IN /\ dns1' = r.dns1
          /\ dns2' = r.dns2
          /\ resolv_conf' = write_file(ResolvContent(r.dns1, r.dns2))
    /\ \E fopen_ok \in BOOLEAN :
         IF /\ android
            /\ etc_group.exists
            /\ ~grep_file(etc_group, AidInet)
            /\ fopen_ok
         THEN \* fopen(etc_group, "a"), fprintf, fclose: the lines go to the
              \* end of the file itself, and no result is looked at
              \E written \in {AidGroupLines} \cup ShortWrites(AidGroupLines) :
                etc_group' = File(etc_group.data \o written)
         ELSE UNCHANGED etc_group
    /\ UNCHANGED <<cfg_hostname, android, getprop>>

\* the identity writer is not part of the run
NetIdle ==
    /\ cfg_hostname = ""
    /\ android = FALSE
    /\ getprop = [n \in PropNames |-> [ok |-> FALSE, value |-> ""]]
    /\ net_pc = "idle"
    /\ hostname_calls = <<>>
    /\ etc_hostname = NoTextFile
    /\ etc_hosts = NoTextFile
    /\ resolv_conf = NoTextFile
    /\ dns1 = ""
    /\ dns2 = ""

\* the group file variables other than /etc/group itself are not used
GroupsUnused ==
    /\ gpu_gids = <<>>
    /\ group_tmp = NoFile
    /\ gg_runs = 0
    /\ gg_ret = 0
    /\ gg_modified = 0
    /\ gg_fault = "none"
    /\ gg_clean = TRUE
    /\ orig_group = etc_group
    /\ first_group = etc_group

--------------------------------------------------------------------------
(* environment.c: the container's environment *)

\* a char pointer: NULL, or the string it points to
NullPtr == [null |-> TRUE, str |-> <<>>]

Ptr(s) == [null |-> FALSE, str |-> s]

\* the environment with no variable, as clearenv() leaves it
EmptyEnv == [n \in {} |-> <<>>]

\* getenv(name)
getenv(env, name) == IF name \in DOMAIN env THEN Ptr(env[name]) ELSE NullPtr

\* setenv(name, value, overwrite): fails with EINVAL on an empty name or a
\* name holding '=', and leaves a set variable alone when overwrite is 0
setenv(env, name, value, overwrite) ==
    IF name = <<>> \/ IndexOf(name, "=", 1) # 0 THEN env
    ELSE IF name \in DOMAIN env /\ overwrite = 0 THEN env
    ELSE [n \in DOMAIN env \cup {name} |-> IF n = name THEN value ELSE env[n]]

\* the string literals of environment.c: the names of the variables, and
\* path = "/usr/local/sbin:/usr/local/bin:/usr/sbin:/usr/bin:/sbin:/bin",
\* xterm = "xterm-256color", root = "/root", droidspaces, lang = "en_US.UTF-8"
Lit ==
    [ PATH |->
        <<"P", "A", "T", "H">>,
      TERM |->
        <<"T", "E", "R", "M">>,
      HOME |->
        <<"H", "O", "M", "E">>,
      container_ttys |->
        <<"c", "o", "n", "t", "a", "i", "n", "e", "r", "_", "t", "t", "y",
          "s">>,
      container |->
        <<"c", "o", "n", "t", "a", "i", "n", "e", "r">>,
      LANG |->
        <<"L", "A", "N", "G">>,
      path |->
        <<"/", "u", "s", "r", "/", "l", "o", "c", "a", "l", "/", "s", "b",
          "i", "n", ":", "/", "u", "s", "r", "/", "l", "o", "c", "a", "l",
          "/", "b", "i", "n", ":", "/", "u", "s", "r", "/", "s", "b", "i",
          "n", ":", "/", "u", "s", "r", "/", "b", "i", "n", ":", "/", "s",
          "b", "i", "n", ":", "/", "b", "i", "n">>,
      xterm |->
        <<"x", "t", "e", "r", "m", "-", "2", "5", "6", "c", "o", "l", "o",
          "r">>,
      root |->
        <<"/", "r", "o", "o", "t">>,
      droidspaces |->
        <<"d", "r", "o", "i", "d", "s", "p", "a", "c", "e", "s">>,
      lang |->
        <<"e", "n", "_", "U", "S", ".", "U", "T", "F", "-", "8">> ]

\* char term_buf[64]
TermBufSize == 64

\* safe_strncpy(dst, src, size): at most size - 1 characters of src, then NUL
safe_strncpy(src, size) ==
    IF Len(src) <= size - 1 THEN src ELSE SubSeq(src, 1, size - 1)

\* set_container_defaults(term), applied to the environment env
set_container_defaults(env, term) ==
    LET e1 == setenv(env, Lit.PATH, Lit.path, 1)
        e2 == setenv(e1, Lit.TERM, IF ~term.null THEN term.str ELSE Lit.xterm, 1)
        e3 == setenv(e2, Lit.HOME, Lit.root, 1)
    IN setenv(e3, Lit.container, Lit.droidspaces, 1)

\* term_buf of setup_container_env and ds_env_boot_setup when clearenv() is
\* reached: "xterm-256color", or the captured TERM cut to the buffer
CaptureTerm(env) ==
    LET saved_term == getenv(env, Lit.TERM)
    IN IF ~saved_term.null THEN safe_strncpy(saved_term.str, TermBufSize)
       ELSE Lit.xterm

\* void setup_container_env(void), as a function of the environment
setup_container_env(env) == set_container_defaults(EmptyEnv, Ptr(CaptureTerm(env)))

\* TERM as the caller's environment may hold it: unset, empty, a usual name,
\* a value that just fits term_buf, and one that does not
TermChoices ==
    { NullPtr, Ptr(<<>>), Ptr(<<"v", "t", "1", "0", "0">>),
      Ptr([i \in 1..(TermBufSize - 1) |-> "x"]),
      Ptr([i \in 1..TermBufSize |-> "x"]) }

\* other variables the caller's environment may hold, as <<name, value>>
OtherVars ==
    { <<<<"F", "O", "O">>, <<"1">>>>,
      <<Lit.LANG, <<"C">>>>,
      <<Lit.container_ttys, <<"/", "d", "e", "v", "/", "p", "t", "s", "/", "9">>>>,
      <<Lit.HOME, <<"/", "h", "o", "m", "e", "/", "u">>>>,
      <<Lit.PATH, <<"/", "b", "i", "n">>>> }

\* the environment holding TERM as term says and the variables of pairs
EnvOf(term, pairs) ==
    LET names == {p[1] : p \in pairs}
        others == [n \in names |-> (CHOOSE p \in pairs : p[1] = n)[2]]
    IN IF term.null THEN others ELSE setenv(others, Lit.TERM, term.str, 1)

InitialEnvs == {EnvOf(t, ps) : t \in TermChoices, ps \in SUBSET OtherVars}

\* void setup_container_env(void), one whole call
SetupContainerEnv ==
    /\ env_runs < MaxEnvCalls
    /\ environ' = setup_container_env(environ)
    /\ env_last' = "seal"
    /\ env_runs' = env_runs + 1
    /\ env_first' = IF env_runs = 0 THEN environ' ELSE env_first
    /\ UNCHANGED <<env_orig, cfg_ttys, etc_environment>>

\* char line[512]
EnvLineSize == 512

\* fgets(line, size, f): the length of the next chunk, which ends after the
\* first newline or after size - 1 characters
FgetsLenN(data, size) ==
    LET lim == IF Len(data) < size - 1 THEN Len(data) ELSE size - 1
        nl == IndexOf(data, "\n", 1)
    IN IF nl # 0 /\ nl <= lim THEN nl ELSE lim

RECURSIVE FgetsAllN(_, _)
\* the chunks a while (fgets(line, size, f)) loop sees, in order
FgetsAllN(data, size) ==
    IF data = <<>> THEN <<>>
    ELSE LET n == FgetsLenN(data, size)
         IN <<SubSeq(data, 1, n)>> \o FgetsAllN(SubSeq(data, n + 1, Len(data)), size)

\* the quote test of load_etc_environment with the two kinds of quote mixed
\* up: any quote at the start and any quote at the end
StripQuotesAnyPair(val) ==
    LET vlen == Len(val)
    IN IF vlen >= 2 /\ val[1] \in {"\"", "'"} /\ val[vlen] \in {"\"", "'"}
       THEN SubSeq(val, 2, vlen - 1)
       ELSE val

\* "Strip quotes": val without its first and last character when it has at
\* least two and both are '"' or both are '\''
StripQuotes(val) ==
    LET vlen == Len(val)
    IN IF vlen >= 2 /\ (\/ val[1] = "\"" /\ val[vlen] = "\""
                        \/ val[1] = "'" /\ val[vlen] = "'")
       THEN SubSeq(val, 2, vlen - 1)
       ELSE val

\* the body of the while loop of load_etc_environment for one chunk
EnvLine(env, chunk) ==
    LET nl == IndexOf(chunk, "\n", 1)
        line == IF nl # 0 THEN SubSeq(chunk, 1, nl - 1) ELSE chunk
    IN IF line = <<>> \/ line[1] = "#" THEN env
       ELSE LET eq == IndexOf(line, "=", 1)
            IN IF eq = 0 THEN env
               ELSE setenv(env, SubSeq(line, 1, eq - 1),
                           StripQuotes(SubSeq(line, eq + 1, Len(line))), 1)

RECURSIVE EnvLines(_, _)
\* the while loop of load_etc_environment over the chunks, in order
EnvLines(env, chunks) ==
    IF chunks = <<>> THEN env
    ELSE EnvLines(EnvLine(env, Head(chunks)), Tail(chunks))

\* void load_etc_environment(void), as a function of the environment and of
\* /etc/environment; opened says whether fopen succeeded
load_etc_environment(env, f, opened) ==
    IF ~f.exists \/ ~opened THEN env
    ELSE EnvLines(env, FgetsAllN(f.data, EnvLineSize))

\* /etc/environment as load_etc_environment may find it: missing, or up
\* to MaxEnvLines of the lines of pool, the last with or without newline
EnvFiles ==
    LET pool ==
          { <<>>,
            <<"#", "A", "=", "1">>,
            <<"A", "=", "1">>,
            <<"A", "=", "'", "1", "'">>,
            <<"A", "=", "\"", "1", "\"">>,
            <<"=", "1">>,
            <<"A">>,
            <<"A", "=", "\"", "\"", "1", "\"", "\"">>,
            <<"A", "=", "\"", "'", "1", "\"", "'">>,
            <<"B", "=", "=">>,
            <<"A", "=", "\"">>,
            <<"B", "=", "'", "'">>,
            <<"A", "=", " ", "1", " ">>,
            <<"A", "=", "'", "\"", "1", "\"", "'">> }
    IN {File(JoinLines(ls, t)) : ls \in SeqsUpTo(pool, MaxEnvLines), t \in BOOLEAN}
       \cup {NoFile}

\* void load_etc_environment(void), one whole call
LoadEtcEnvironment ==
    /\ env_last = "none"
    /\ \E opened \in BOOLEAN :
         /\ environ' = load_etc_environment(environ, etc_environment, opened)
         /\ env_last' = IF etc_environment.exists /\ opened THEN "load" ELSE "noload"
    /\ UNCHANGED <<env_runs, env_orig, env_first, cfg_ttys, etc_environment>>

\* char ttys_str[256]
TtysStrSize == 256

\* strncat(dest, src, n): dest followed by at most n characters of src
strncat(dest, src, n) ==
    dest \o (IF Len(src) <= n THEN src ELSE SubSeq(src, 1, n))

RECURSIVE TtysLoopLeadingSpace(_, _, _, _)
\* the loop of build_container_ttys_string with the separator written
\* before every name, the first included
TtysLoopLeadingSpace(ttys, i, buf, size) ==
    IF i > Len(ttys) THEN buf
    ELSE LET b1 == strncat(buf, <<" ">>, size - Len(buf) - 1)
             b2 == strncat(b1, ttys[i], size - Len(b1) - 1)
         IN TtysLoopLeadingSpace(ttys, i + 1, b2, size)

RECURSIVE TtysLoop(_, _, _, _)
\* the for loop of build_container_ttys_string from index i (1-based) on
TtysLoop(ttys, i, buf, size) ==
    IF i > Len(ttys) THEN buf
    ELSE LET b1 == IF i > 1 THEN strncat(buf, <<" ">>, size - Len(buf) - 1) ELSE buf
             b2 == strncat(b1, ttys[i], size - Len(b1) - 1)
         IN TtysLoop(ttys, i + 1, b2, size)

\* build_container_ttys_string with a space before the first name as well
BuildTtysLeadingSpace(ttys, size) == TtysLoopLeadingSpace(ttys, 1, <<>>, size)

\* void build_container_ttys_string(ttys, count, buf, size): buf afterwards
build_container_ttys_string(ttys, size) == TtysLoop(ttys, 1, <<>>, size)

\* void ds_env_boot_setup(struct ds_config *cfg), as a function of the
\* environment and of cfg->ttys[0 .. tty_count-1]
ds_env_boot_setup(env, ttys) ==
    LET e1 == set_container_defaults(EmptyEnv, Ptr(CaptureTerm(env)))
        e2 == IF Len(ttys) > 0
              THEN setenv(e1, Lit.container_ttys,
                          build_container_ttys_string(ttys, TtysStrSize), 1)
              ELSE e1
    IN setenv(e2, Lit.LANG, Lit.lang, 0)

\* the slave names of n auxiliary PTYs, "/dev/pts/<k>" as openpty reports
\* them: the i-th is pty i - 1 or pty i + 9
TtyNames(n) ==
    LET pts(k) == <<"/", "d", "e", "v", "/", "p", "t", "s", "/">> \o FormatD(k)
    IN {[i \in 1..n |-> IF i \in late THEN pts(i + 9) ELSE pts(i - 1)] :
           late \in SUBSET (1..n)}

BootEnvs ==
    {EnvOf(t, ps) : t \in {NullPtr, Ptr(<<"v", "t", "1", "0", "0">>)},
                    ps \in SUBSET {p \in OtherVars : p[1] \in {Lit.container_ttys, Lit.LANG}}}

\* void ds_env_boot_setup(struct ds_config *cfg), one whole call
DsEnvBootSetup ==
    /\ env_last = "none"
    /\ environ' = ds_env_boot_setup(environ, cfg_ttys)
    /\ env_last' = "boot"
    /\ UNCHANGED <<env_runs, env_orig, env_first, cfg_ttys, etc_environment>>

\* the environment is not part of the run
EnvIdle ==
    /\ environ = EmptyEnv
    /\ env_last = "idle"
    /\ env_runs = 0
    /\ env_orig = EmptyEnv
    /\ env_first = EmptyEnv
    /\ cfg_ttys = <<>>
    /\ etc_environment = NoFile

--------------------------------------------------------------------------
(* mount.c: /dev, /dev/pts and the cgroup hierarchy; terminal.c: the TTYs *)

\* what mount(2) may answer: success, EBUSY, or another errno
MountOutcomes == {"ok", "EBUSY", "EPERM"}

\* int domount(src, tgt, fstype, flags, data), given what mount(2) answered
domount(outcome) == IF outcome # "ok" /\ outcome # "EBUSY" THEN -1 ELSE 0

\* what is at a path under /dev: kind "absent", "chr" (a character device
\* major:minor), "reg" (a regular file), "symlink" (to from) or "bind"
\* (the path has from bind-mounted on it)
Node(kind, major, minor, from) ==
    [kind |-> kind, major |-> major, minor |-> minor, from |-> from]

\* devices[] of create_devices, without the terminating entry
devices ==
    << [name |-> "null",    mode |-> "S_IFCHR", major |-> 1, minor |-> 3],
       [name |-> "zero",    mode |-> "S_IFCHR", major |-> 1, minor |-> 5],
       [name |-> "full",    mode |-> "S_IFCHR", major |-> 1, minor |-> 7],
       [name |-> "random",  mode |-> "S_IFCHR", major |-> 1, minor |-> 8],
       [name |-> "urandom", mode |-> "S_IFCHR", major |-> 1, minor |-> 9],
       [name |-> "tty",     mode |-> "S_IFCHR", major |-> 5, minor |-> 0],
       [name |-> "console", mode |-> "S_IFCHR", major |-> 5, minor |-> 1],
       [name |-> "ptmx",    mode |-> "S_IFCHR", major |-> 5, minor |-> 2],
       [name |-> "tty1",    mode |-> "S_IFREG", major |-> 0, minor |-> 0],
       [name |-> "tty2",    mode |-> "S_IFREG", major |-> 0, minor |-> 0],
       [name |-> "tty3",    mode |-> "S_IFREG", major |-> 0, minor |-> 0],
       [name |-> "tty4",    mode |-> "S_IFREG", major |-> 0, minor |-> 0] >>

\* the "Standard symlinks" of create_devices: <<name, target>>
symlinks ==
    << <<"fd", "/proc/self/fd">>, <<"stdin", "/proc/self/fd/0">>,
       <<"stdout", "/proc/self/fd/1">>, <<"stderr", "/proc/self/fd/2">> >>

\* snprintf(target, sizeof(target), "/dev/tty%d", i + 1), under /dev
TtyTarget(n) == "tty" \o ToString(n)

\* the names under /dev the model follows
DevNames ==
    {devices[i].name : i \in 1..Len(devices)}
    \cup {symlinks[i][1] : i \in 1..Len(symlinks)}
    \cup {TtyTarget(n) : n \in 1..MaxTtys}

\* a tmpfs that was just mounted
EmptyDev == [n \in DevNames |-> Node("absent", 0, 0, "")]

\* int bind_mount(src, tgt) for tgt = <rootfs>/dev/<name> and src the host's
\* /dev/<name>: env.host says whether stat(src) succeeds, env.bind is what
\* mount(2) answers.  Gives the tree, the return value and what mount(2)
\* answered ("" when it was not called).
bind_mount(tree, name, env) ==
    IF ~env.host THEN [tree |-> tree, ret |-> -1, mount |-> ""]
    ELSE LET made == IF tree[name].kind = "absent"
                     THEN [tree EXCEPT ![name] = Node("reg", 0, 0, "")]   \* write_file(tgt, "")
                     ELSE tree
         IN [tree |-> IF env.bind = "ok"
                      THEN [made EXCEPT ![name] = Node("bind", 0, 0, "/dev/" \o name)]
                      ELSE made,
             ret |-> domount(env.bind),
             mount |-> env.bind]

\* the body of the for loop of create_devices for the entry d, on the
\* state st = [tree, fatal, busy]; env says how the system calls answer
DeviceStep(st, d, env) ==
    IF st.tree[d.name].kind # "absent" THEN st    \* mknod: EEXIST
    ELSE IF env.mknod
    THEN [st EXCEPT !.tree[d.name] =
             IF d.mode = "S_IFREG" THEN Node("reg", 0, 0, "") ELSE Node("chr", d.major, d.minor, "")]
    ELSE IF d.mode = "S_IFREG"
    THEN [st EXCEPT !.tree[d.name] = Node("reg", 0, 0, "")]         \* write_file(path, "")
    ELSE LET b == bind_mount(st.tree, d.name, env)
         IN [tree |-> b.tree,
             fatal |-> st.fatal \/ (b.mount \notin {"", "ok", "EBUSY"}),
             busy |-> st.busy \/ b.mount = "EBUSY"]

RECURSIVE DeviceLoop(_, _, _)
\* the for loop of create_devices from entry i on; envs[name] says how the
\* system calls made for that entry answer
DeviceLoop(st, i, envs) ==
    IF i > Len(devices) THEN st
    ELSE DeviceLoop(DeviceStep(st, devices[i], envs[devices[i].name]), i + 1, envs)

RECURSIVE SymlinkLoop(_, _)
\* symlink(target, <rootfs>/dev/<name>) for the four standard links
SymlinkLoop(tree, i) ==
    IF i > Len(symlinks) THEN tree
    ELSE SymlinkLoop(IF tree[symlinks[i][1]].kind = "absent"
                     THEN [tree EXCEPT ![symlinks[i][1]] = Node("symlink", 0, 0, symlinks[i][2])]
                     ELSE tree,
                     i + 1)

\* int create_devices(rootfs): [tree, fatal, busy, ret]
create_devices(tree, envs) ==
    LET st == DeviceLoop([tree |-> tree, fatal |-> FALSE, busy |-> FALSE], 1, envs)
    IN [tree |-> SymlinkLoop(st.tree, 1), fatal |-> st.fatal, busy |-> st.busy,
        ret |-> 0]

\* how the system calls of one create_devices call may answer, per entry.
\* good: they all succeed.  bad: mknod fails with an errno other than
\* EEXIST, and the host node is missing, or it is there and the bind mount
\* answers one of MountOutcomes.  mknod fails for at most MaxDevFaults of
\* the entries.
DeviceEnvs ==
    LET good == [mknod |-> TRUE, host |-> TRUE, bind |-> "ok"]
        bad == {[mknod |-> FALSE, host |-> FALSE, bind |-> "ok"]}
               \cup {[mknod |-> FALSE, host |-> TRUE, bind |-> b] : b \in MountOutcomes}
        names == {devices[i].name : i \in 1..Len(devices)}
    IN UNION { {[n \in names |-> IF n \in D THEN f[n] ELSE good] : f \in [D -> bad]} :
               D \in {D \in SUBSET names : Cardinality(D) <= MaxDevFaults} }

\* <rootfs>/dev before anything is mounted on it: empty, or holding one
\* left-over node
PriorTrees ==
    { EmptyDev,
      [EmptyDev EXCEPT !["null"] = Node("reg", 0, 0, "")],
      [EmptyDev EXCEPT !["null"] = Node("chr", 1, 3, "")],
      [EmptyDev EXCEPT !["tty1"] = Node("reg", 0, 0, "")] }

\* the host's devtmpfs: the roster, and the virtual consoles where the
\* host has them
HostDev(vt) ==
    [n \in DevNames |->
        IF \E i \in 1..Len(devices) : devices[i].name = n /\ devices[i].mode = "S_IFCHR"
        THEN LET d == CHOOSE d \in {devices[i] : i \in 1..Len(devices)} : d.name = n
             IN Node("chr", d.major, d.minor, "")
        ELSE IF vt /\ \E k \in 1..MaxTtys : n = TtyTarget(k)
        THEN Node("chr", 4, CHOOSE k \in 1..MaxTtys : n = TtyTarget(k), "")
        ELSE Node("absent", 0, 0, "")]

Steps == {"setup_dev", "setup_devpts", "setup_cgroups", "setup_ttys"}

\* the step has run: its return value, and what its mounts answered
Ran(step, ret, fatal, busy) ==
    /\ mnt_ran' = mnt_ran \cup {step}
    /\ mnt_ret' = [mnt_ret EXCEPT ![step] = ret]
    /\ mnt_fatal' = IF fatal THEN mnt_fatal \cup {step} ELSE mnt_fatal
    /\ mnt_busy' = IF busy THEN mnt_busy \cup {step} ELSE mnt_busy

\* int setup_dev(const char *rootfs, int hw_access), one whole call
SetupDev ==
    /\ "setup_dev" \notin mnt_ran
    /\ \E m \in MountOutcomes :
         IF hw_access
         THEN /\ \E vt \in BOOLEAN :
                   dev' = IF m = "ok" THEN HostDev(vt) ELSE dev
              /\ Ran("setup_dev", domount(m), domount(m) < 0, m = "EBUSY")
         ELSE IF domount(m) < 0
         THEN /\ UNCHANGED dev
              /\ Ran("setup_dev", -1, TRUE, FALSE)
         ELSE \E envs \in DeviceEnvs :
                LET r == create_devices(IF m = "ok" THEN EmptyDev ELSE dev, envs)
                IN /\ dev' = r.tree
                   /\ Ran("setup_dev", r.ret, r.fatal, r.busy \/ m = "EBUSY")
    /\ UNCHANGED <<hw_access, tty_count, cg_mounts, tty_notarget, tty_bound>>

\* int ds_terminal_setup_ttys(struct ds_tty_info *ttys, int count), one
\* whole call, made once setup_dev has succeeded: a bind mount on a missing
\* target fails, and at most one of the others does
DsTerminalSetupTtys ==
    /\ "setup_dev" \in mnt_ran
    /\ mnt_ret["setup_dev"] = 0
    /\ "setup_ttys" \notin mnt_ran
    /\ LET missing == {i \in 1..tty_count : dev[TtyTarget(i)].kind = "absent"}
       IN \E failing \in {{}} \cup {{i} : i \in (1..tty_count) \ missing} :
            /\ tty_notarget' = missing
            /\ tty_bound' = (1..tty_count) \ (missing \cup failing)
            /\ dev' = [n \in DevNames |->
                          IF \E i \in tty_bound' : n = TtyTarget(i)
                          THEN Node("bind", 0, 0, "ttys[" \o ToString((CHOOSE i \in tty_bound' : n = TtyTarget(i)) - 1) \o "].name")
                          ELSE dev[n]]
    /\ Ran("setup_ttys", 0, FALSE, FALSE)
    /\ UNCHANGED <<hw_access, tty_count, cg_mounts>>

\* subs[] of setup_cgroups, without the terminating entry
subs == <<"cpu", "cpuacct", "devices", "memory", "freezer", "blkio", "pids", "systemd">>

\* the file systems setup_cgroups has mounted, as <<path, fstype>>, in order
CgroupMounts(first, outs) ==
    (IF first = "ok" THEN << <<"/sys/fs/cgroup", "tmpfs">> >> ELSE <<>>)
    \o SelectSeq([i \in 1..Len(subs) |->
                     IF outs[i] = "ok" THEN <<"/sys/fs/cgroup/" \o subs[i], "cgroup">>
                     ELSE <<>>],
                 LAMBDA x : x # <<>>)

\* int setup_devpts(void), one whole call
SetupDevpts ==
    /\ "setup_devpts" \notin mnt_ran
    /\ \E m \in MountOutcomes :
         Ran("setup_devpts", domount(m), domount(m) < 0, m = "EBUSY")
    /\ UNCHANGED <<hw_access, tty_count, dev, cg_mounts, tty_notarget, tty_bound>>

\* int setup_cgroups(void), one whole call
SetupCgroups ==
    /\ "setup_cgroups" \notin mnt_ran
    /\ \E controllers \in BOOLEAN, in_proc_mounts \in BOOLEAN, m \in MountOutcomes :
         IF controllers \/ in_proc_mounts
         THEN \* access(".../cgroup.controllers") == 0 || grep_file(...)
              /\ cg_mounts' = IF m = "ok" THEN << <<"/sys/fs/cgroup", "cgroup2">> >>
                              ELSE <<>>
              /\ Ran("setup_cgroups", domount(m), domount(m) < 0, m = "EBUSY")
         ELSE IF domount(m) < 0
         THEN /\ UNCHANGED cg_mounts
              /\ Ran("setup_cgroups", -1, TRUE, FALSE)
         ELSE \E outs \in [1..Len(subs) -> MountOutcomes] :
                /\ cg_mounts' = CgroupMounts(m, outs)
                /\ Ran("setup_cgroups", 0,
                       \E i \in 1..Len(subs) : domount(outs[i]) < 0,
                       m = "EBUSY" \/ \E i \in 1..Len(subs) : outs[i] = "EBUSY")
    /\ UNCHANGED <<hw_access, tty_count, dev, tty_notarget, tty_bound>>

\* the mount variables other than cfg->hw_access are not used
MountUnused ==
    /\ tty_count = 0
    /\ dev = EmptyDev
    /\ mnt_ran = {}
    /\ mnt_ret = [s \in Steps |-> 0]
    /\ mnt_fatal = {}
    /\ mnt_busy = {}
    /\ cg_mounts = <<>>
    /\ tty_notarget = {}
    /\ tty_bound = {}

\* the mounts are not part of the run
MountIdle ==
    /\ hw_access = FALSE
    /\ tty_count = 0
    /\ dev = EmptyDev
    /\ mnt_ran = {}
    /\ mnt_ret = [s \in Steps |-> 0]
    /\ mnt_fatal = {}
    /\ mnt_busy = {}
    /\ cg_mounts = <<>>
    /\ tty_notarget = {}
    /\ tty_bound = {}

--------------------------------------------------------------------------
(* hardware.c: setup_hardware_access *)

\* int setup_x11_and_virgl_sockets(cfg): the return value and what is bound
\* into the guest ("" for nothing), given what is_android(), access() on the
\* source and mount(2) answer
setup_x11_and_virgl_sockets(is_android, present, m) ==
    IF ~is_android
    THEN IF present
         THEN IF m # "ok" THEN [ret |-> -1, mounted |-> ""]
              ELSE [ret |-> 0, mounted |-> "DS_X11_PATH_DESKTOP"]
         ELSE [ret |-> 0, mounted |-> ""]
    ELSE IF ~present THEN [ret |-> 0, mounted |-> ""]
    ELSE IF m # "ok" THEN [ret |-> 0, mounted |-> ""]
    ELSE [ret |-> 0, mounted |-> "DS_TERMUX_TMP_OLDROOT"]

\* the socket bridge is attempted for termux_x11 only
WantsBridgeTermuxOnly(hw, tx) == tx

\* if (cfg->hw_access || cfg->termux_x11), the guard of the socket bridge
WantsBridge(hw, tx) == hw \/ tx

\* the configuration, the captured GIDs and the guest before
\* setup_hardware_access is called
HwInit ==
    /\ hw_access \in BOOLEAN
    /\ termux_x11 \in BOOLEAN
    /\ hwa_pc = "start"
    /\ hwa_ret = Unset
    /\ x11_calls = 0
    /\ x11_ret = 0
    /\ x11_mounted = ""
    /\ gpu_gids \in ProbedGids
    /\ etc_group \in { NoFile,
                      File(GroupRecord(<<"v">>, <<"4", "4">>, <<>>) \o <<"\n">>),
                      File(GroupRecord(<<"v">>, <<"4", "4">>, <<>>)) }
    /\ group_tmp = NoFile
    /\ gg_runs = 0
    /\ gg_ret = 0
    /\ gg_modified = 0
    /\ gg_fault = "none"
    /\ gg_clean = TRUE
    /\ orig_group = etc_group
    /\ first_group = etc_group

\* int setup_hardware_access(cfg, gpu_gids, gid_count), one whole call
SetupHardwareAccess ==
    /\ hwa_pc = "start"
    /\ hwa_pc' = "done"
    /\ hwa_ret' = 0
    /\ IF ~hw_access /\ ~termux_x11
       THEN UNCHANGED <<groupVars, x11_calls, x11_ret, x11_mounted>>
       ELSE /\ IF hw_access THEN SetupGpuGroups ELSE UNCHANGED groupVars
            /\ IF WantsBridge(hw_access, termux_x11)
               THEN \E is_android \in BOOLEAN, present \in BOOLEAN, m \in MountOutcomes :
                      LET r == setup_x11_and_virgl_sockets(is_android, present, m)
                      IN /\ x11_calls' = x11_calls + 1
                         /\ x11_ret' = r.ret
                         /\ x11_mounted' = r.mounted
               ELSE UNCHANGED <<x11_calls, x11_ret, x11_mounted>>
    /\ UNCHANGED termux_x11

\* the hardware bridge is not part of the run
HwIdle ==
    /\ termux_x11 = FALSE
    /\ hwa_pc = "idle"
    /\ hwa_ret = 0
    /\ x11_calls = 0
    /\ x11_ret = 0
    /\ x11_mounted = ""

--------------------------------------------------------------------------
(* The bring-up pipeline that calls the components, in its documented order *)

\* the order with the probe moved behind pivot_root
BootOrderProbeLate ==
    << "mount_builder", "terminal_provisioner", "pivot_root", "probe",
       "identity_writer", "hardware_bridge", "syscall_filter",
       "environment_sealer", "exec" >>

\* the stages of one bring-up run, in order
BootOrder ==
    << "probe", "mount_builder", "terminal_provisioner", "pivot_root",
       "identity_writer", "hardware_bridge", "syscall_filter",
       "environment_sealer", "exec" >>

\* the stage the pipeline is at ("" once exec is reached)
BootStage == IF boot_stage <= Len(BootOrder) THEN BootOrder[boot_stage] ELSE ""

\* the scan's result as the orchestrator keeps it: gids[0 .. gid_count-1]
CapturedGids(arr, n) == SubSeq(arr, 1, n)

\* probe: one iteration of the loop of scan_host_gpu_gids
BootProbeStep ==
    /\ BootStage = "probe"
    /\ ScanStep
    /\ scanned_late' = (scanned_late \/ pivoted)
    /\ UNCHANGED <<boot_stage, pivoted, recon_early, groupVars>>

\* probe: scan_host_gpu_gids returns and the orchestrator keeps the result
BootProbeReturn ==
    /\ BootStage = "probe"
    /\ ScanReturn
    /\ gpu_gids' = CapturedGids(gids, count)
    /\ scanned_late' = (scanned_late \/ pivoted)
    /\ boot_stage' = boot_stage + 1
    /\ UNCHANGED <<pivoted, recon_early, etc_group, group_tmp, gg_runs, gg_ret,
                   gg_modified, gg_fault, gg_clean, orig_group, first_group>>

\* pivot_root: from here on /dev is the guest's
BootPivotRoot ==
    /\ BootStage = "pivot_root"
    /\ pivoted' = TRUE
    /\ boot_stage' = boot_stage + 1
    /\ UNCHANGED <<scanned_late, recon_early, scanVars, groupVars>>

\* hardware bridge: setup_hardware_access(cfg, gpu_gids, gid_count)
BootHardwareBridge ==
    /\ BootStage = "hardware_bridge"
    /\ SetupHardwareAccess
    /\ recon_early' = (recon_early \/ ~pivoted)
    /\ boot_stage' = boot_stage + 1
    /\ UNCHANGED <<pivoted, scanned_late, scanVars>>

\* a stage that neither scans nor touches the captured GIDs
BootOtherStage ==
    /\ BootStage \notin {"", "probe", "pivot_root", "hardware_bridge"}
    /\ boot_stage' = boot_stage + 1
    /\ UNCHANGED <<pivoted, scanned_late, recon_early, scanVars, groupVars>>

\* the pipeline is not part of the run
BootIdle ==
    /\ boot_stage = 0
    /\ pivoted = FALSE
    /\ scanned_late = FALSE
    /\ recon_early = FALSE

--------------------------------------------------------------------------
(* The specifications *)

InitSeccomp == SeccompInit /\ ScanIdle /\ GroupsIdle /\ NetIdle /\ EnvIdle /\ MountIdle /\ HwIdle /\ BootIdle

NextSeccomp ==
    \/ AndroidSeccompSetup /\ UNCHANGED <<scanVars, groupVars, netVars, envVars, mountVars, hwVars, bootVars>>
    \/ GuestSyscall /\ UNCHANGED <<scanVars, groupVars, netVars, envVars, mountVars, hwVars, bootVars>>

SpecSeccomp == InitSeccomp /\ [][NextSeccomp]_vars

InitScan == ScanInit /\ SeccompIdle /\ GroupsIdle /\ NetIdle /\ EnvIdle /\ MountIdle /\ HwIdle /\ BootIdle

NextScan ==
    \/ ScanStep /\ UNCHANGED <<seccompVars, groupVars, netVars, envVars, mountVars, hwVars, bootVars>>
    \/ ScanReturn /\ UNCHANGED <<seccompVars, groupVars, netVars, envVars, mountVars, hwVars, bootVars>>

SpecScan == InitScan /\ [][NextScan]_vars

InitGroups == GroupsInit /\ SeccompIdle /\ ScanIdle /\ NetIdle /\ EnvIdle /\ MountIdle /\ HwIdle /\ BootIdle

NextGroups ==
    \/ SetupGpuGroups /\ UNCHANGED <<seccompVars, scanVars, netVars, envVars, mountVars, hwVars, bootVars>>

SpecGroups == InitGroups /\ [][NextGroups]_vars

InitNet == NetInit /\ GroupsUnused /\ SeccompIdle /\ ScanIdle /\ EnvIdle /\ MountIdle /\ HwIdle /\ BootIdle

NextNet ==
    \/ /\ FixNetworkingRootfs
       /\ UNCHANGED <<seccompVars, scanVars, envVars, mountVars, hwVars, bootVars, gpu_gids, group_tmp, gg_runs,
                      gg_ret, gg_modified, gg_fault, gg_clean, orig_group,
                      first_group>>

SpecNet == InitNet /\ [][NextNet]_vars

\* the environment before setup_container_env is called
InitSeal ==
    /\ environ \in InitialEnvs
    /\ env_last = "none"
    /\ env_runs = 0
    /\ env_orig = environ
    /\ env_first = environ
    /\ cfg_ttys = <<>>
    /\ etc_environment = NoFile
    /\ SeccompIdle /\ ScanIdle /\ GroupsIdle /\ NetIdle /\ MountIdle /\ HwIdle /\ BootIdle

NextSeal ==
    \/ SetupContainerEnv /\ UNCHANGED <<seccompVars, scanVars, groupVars, netVars, mountVars, hwVars, bootVars>>

SpecSeal == InitSeal /\ [][NextSeal]_vars

\* the environment before load_etc_environment is called: empty, or as
\* setup_container_env leaves it
InitEtcEnv ==
    /\ environ \in {EmptyEnv, setup_container_env(EmptyEnv)}
    /\ env_last = "none"
    /\ env_runs = 0
    /\ env_orig = environ
    /\ env_first = environ
    /\ cfg_ttys = <<>>
    /\ etc_environment \in EnvFiles
    /\ SeccompIdle /\ ScanIdle /\ GroupsIdle /\ NetIdle /\ MountIdle /\ HwIdle /\ BootIdle

NextEtcEnv ==
    \/ LoadEtcEnvironment /\ UNCHANGED <<seccompVars, scanVars, groupVars, netVars, mountVars, hwVars, bootVars>>

SpecEtcEnv == InitEtcEnv /\ [][NextEtcEnv]_vars

\* the environment and the configuration before ds_env_boot_setup is called
InitBootEnv ==
    /\ environ \in BootEnvs
    /\ env_last = "none"
    /\ env_runs = 0
    /\ env_orig = environ
    /\ env_first = environ
    /\ cfg_ttys \in UNION {TtyNames(c) : c \in 0..MaxTtys}
    /\ etc_environment = NoFile
    /\ SeccompIdle /\ ScanIdle /\ GroupsIdle /\ NetIdle /\ MountIdle /\ HwIdle /\ BootIdle

NextBootEnv ==
    \/ DsEnvBootSetup /\ UNCHANGED <<seccompVars, scanVars, groupVars, netVars, mountVars, hwVars, bootVars>>

SpecBootEnv == InitBootEnv /\ [][NextBootEnv]_vars

\* the configuration and <rootfs>/dev before setup_dev is called
InitDev ==
    /\ hw_access \in BOOLEAN
    /\ tty_count \in 0..MaxTtys
    /\ dev \in PriorTrees
    /\ mnt_ran = {}
    /\ mnt_ret = [s \in Steps |-> 0]
    /\ mnt_fatal = {}
    /\ mnt_busy = {}
    /\ cg_mounts = <<>>
    /\ tty_notarget = {}
    /\ tty_bound = {}
    /\ SeccompIdle /\ ScanIdle /\ GroupsIdle /\ NetIdle /\ EnvIdle /\ HwIdle /\ BootIdle

NextDev ==
    \/ SetupDev /\ UNCHANGED <<seccompVars, scanVars, groupVars, netVars, envVars, hwVars, bootVars>>
    \/ DsTerminalSetupTtys /\ UNCHANGED <<seccompVars, scanVars, groupVars, netVars, envVars, hwVars, bootVars>>

SpecDev == InitDev /\ [][NextDev]_vars

InitMounts ==
    hw_access \in BOOLEAN /\ MountUnused /\ SeccompIdle /\ ScanIdle /\ GroupsIdle /\ NetIdle /\ EnvIdle /\ HwIdle /\ BootIdle

NextMounts ==
    \/ SetupDevpts /\ UNCHANGED <<seccompVars, scanVars, groupVars, netVars, envVars, hwVars, bootVars>>
    \/ SetupCgroups /\ UNCHANGED <<seccompVars, scanVars, groupVars, netVars, envVars, hwVars, bootVars>>

SpecMounts == InitMounts /\ [][NextMounts]_vars

InitHw == HwInit /\ MountUnused /\ SeccompIdle /\ ScanIdle /\ NetIdle /\ EnvIdle /\ BootIdle

NextHw ==
    \/ /\ SetupHardwareAccess
       /\ UNCHANGED <<seccompVars, scanVars, netVars, envVars, mountVars, bootVars>>

SpecHw == InitHw /\ [][NextHw]_vars

InitBoot ==
    /\ boot_stage = 1
    /\ pivoted = FALSE
    /\ scanned_late = FALSE
    /\ recon_early = FALSE
    /\ ScanInit
    /\ max_gids = MaxGidsCap
    /\ HwInit
    /\ gpu_gids = <<>>
    /\ termux_x11 = FALSE
    /\ etc_group = File(GroupRecord(<<"v">>, <<"4", "4">>, <<>>) \o <<"\n">>)
    /\ MountUnused /\ SeccompIdle /\ NetIdle /\ EnvIdle

NextBoot ==
    \/ BootProbeStep /\ UNCHANGED <<seccompVars, netVars, envVars, mountVars, hwVars>>
    \/ BootProbeReturn /\ UNCHANGED <<seccompVars, netVars, envVars, mountVars, hwVars>>
    \/ BootPivotRoot /\ UNCHANGED <<seccompVars, netVars, envVars, mountVars, hwVars>>
    \/ BootHardwareBridge /\ UNCHANGED <<seccompVars, netVars, envVars, mountVars>>
    \/ BootOtherStage /\ UNCHANGED <<seccompVars, netVars, envVars, mountVars, hwVars>>

SpecBoot == InitBoot /\ [][NextBoot]_vars

--------------------------------------------------------------------------
(* Properties of the syscall filter *)

\* a guest syscall of the native architecture has been classified
Classified == seccomp_pc = "done" /\ verdict # "none" /\ sdata.arch = "native"

KeyringCalls == {"keyctl", "add_key", "request_key"}

\* bit i of a non-negative word
BitOf(x, i) == (x \div (2 ^ i)) % 2

\* the 64-bit argument <<hi, lo>> and the 32-bit mask m have a bit in common
MeetsMask(arg, m) == \E i \in 0..30 : BitOf(arg.lo, i) = 1 /\ BitOf(m, i) = 1

\* C1: whatever is_systemd, the kernel version and the arguments are, the
\* filter answers a native reboot with TRAP and a native keyctl, add_key or
\* request_key with ERRNO(ENOSYS).
C1_RebootTrapKeyringEnosys ==
    Classified =>
        /\ sdata.nr = "reboot" => verdict = SECCOMP_RET_TRAP
        /\ sdata.nr \in KeyringCalls => verdict = RET_ENOSYS

\* C1 witness: a legacy systemd guest's reboot with every namespace flag set
\* in its first argument is trapped.
C1_Witness ==
    /\ Classified
    /\ is_systemd /\ kernel.ok /\ kernel.major = 4
    /\ sdata.nr = "reboot" /\ sdata.arg0.lo = ns_mask
    /\ verdict = SECCOMP_RET_TRAP

\* C2: with the kernel version known, a native syscall gets ERRNO(EPERM)
\* exactly when the guest is systemd, the kernel major is below 5, the
\* syscall is unshare or clone and its first argument shares a bit with
\* 0x7E020000; every other syscall that is neither reboot nor a keyring call
\* is allowed.
C2_EpermIffLegacyNamespace ==
    (Classified /\ kernel.ok) =>
        LET legacy == /\ is_systemd
                      /\ kernel.major < 5
                      /\ sdata.nr \in {"unshare", "clone"}
                      /\ MeetsMask(sdata.arg0, 2114060288)
        IN /\ verdict = RET_EPERM <=> legacy
           /\ (~legacy /\ sdata.nr \notin KeyringCalls \cup {"reboot"})
                  => verdict = SECCOMP_RET_ALLOW

\* C2 witness: on a 4.x kernel a systemd guest's clone(CLONE_NEWNS | SIGCHLD)
\* is refused.
C2_Witness ==
    /\ Classified
    /\ is_systemd /\ kernel.ok /\ kernel.major = 4
    /\ sdata.nr = "clone" /\ sdata.arg0.lo = 131089
    /\ verdict = RET_EPERM

\* C3: when get_kernel_version fails, the installed filter skips the
\* unshare/clone branch: a native unshare or clone is allowed whatever its
\* flags, also for a systemd guest.
C3_FailedProbeIsModern ==
    (Classified /\ ~kernel.ok /\ sdata.nr \in {"unshare", "clone"})
        => verdict = SECCOMP_RET_ALLOW

--------------------------------------------------------------------------
(* Properties of the GPU GID scan *)

\* C8: what scan_host_gpu_gids returns is the number of slots it filled, at
\* most max_gids; the filled slots hold no 0 and no GID twice, each GID is
\* the owner of an existing listed device, and the slots are in the order of
\* the first list position at which each GID was met; the other slots are
\* untouched.
C8_ScanResult ==
    scan_pc = "done" =>
        /\ scan_ret >= 0 /\ scan_ret <= max_gids
        /\ \A j \in 1..scan_ret :
              /\ gids[j] # Unset
              /\ gids[j] # 0
              /\ first_owned[gids[j]] \in 1..Len(gpu_devices)
        /\ \A j, k \in 1..scan_ret :
              j < k => /\ gids[j] # gids[k]
                       /\ first_owned[gids[j]] < first_owned[gids[k]]
        /\ \A j \in (scan_ret + 1)..max_gids : gids[j] = Unset

\* C8 witness: /dev/mali0 (position 16) is owned by GID 240 and /dev/kgsl-3d0
\* (position 19) by GID 44, no earlier device by either: the scan returns
\* 2 with <<240, 44>>.
C8_Witness ==
    /\ scan_pc = "done"
    /\ scan_ret = 2
    /\ gids[1] = 240 /\ gids[2] = 44
    /\ first_owned[240] = 16 /\ first_owned[44] = 19

--------------------------------------------------------------------------
(* Properties of the /etc/group reconciliation *)

RECURSIVE SplitBy(_, _)
\* the fields of str between the separators c (one field for an empty str)
SplitBy(str, c) ==
    LET S == {i \in 1..Len(str) : str[i] = c}
    IN IF S = {} THEN <<str>>
       ELSE LET i == CHOOSE x \in S : \A y \in S : x <= y
            IN <<SubSeq(str, 1, i - 1)>> \o SplitBy(SubSeq(str, i + 1, Len(str)), c)

\* the lines of a text file, without their newlines; a last line that no
\* newline ends counts as a line
LinesOf(data) ==
    LET parts == SplitBy(data, "\n")
    IN IF parts[Len(parts)] = <<>> THEN SubSeq(parts, 1, Len(parts) - 1) ELSE parts

\* the line is a record name:pw:gid:user_list with gid = g
IsRecordOf(ln, g) ==
    LET f == SplitBy(ln, ":")
    IN Len(f) >= 4 /\ f[3] = FormatD(g)

HasRecord(data, g) == \E k \in 1..Len(LinesOf(data)) : IsRecordOf(LinesOf(data)[k], g)

\* the members of a record's user list
Members(ln) ==
    LET f == SplitBy(ln, ":")
    IN IF Len(f) < 4 \/ f[4] = <<>> THEN <<>> ELSE SplitBy(f[4], ",")

CountRoot(ln) == Cardinality({m \in 1..Len(Members(ln)) : Members(ln)[m] = ROOT})

\* setup_gpu_groups has been called once on an existing /etc/group and no
\* library call failed
RanOnce == gg_runs = 1 /\ gg_clean /\ orig_group.exists

\* C4: after one call, for every probed GID g without a record in the
\* original /etc/group the file has exactly one line gpu_<g>:x:<g>:root.
C4_MissingGidGetsOneLine ==
    RanOnce =>
        \A i \in 1..Len(gpu_gids) :
            ~HasRecord(orig_group.data, gpu_gids[i]) =>
                LET new == LinesOf(etc_group.data)
                    want == <<"g", "p", "u", "_">> \o FormatD(gpu_gids[i])
                            \o <<":", "x", ":">> \o FormatD(gpu_gids[i])
                            \o <<":", "r", "o", "o", "t">>
                IN Cardinality({k \in 1..Len(new) : new[k] = want}) = 1

\* C5: after one call the file has as many lines as before plus one per
\* probed GID that had no record, and every original line is still a line of
\* its own, at its position, with at most root added to it.
C5_LineCount ==
    RanOnce =>
        LET old == LinesOf(orig_group.data)
            new == LinesOf(etc_group.data)
            missing == {i \in 1..Len(gpu_gids) :
                           ~HasRecord(orig_group.data, gpu_gids[i])}
        IN /\ Len(new) = Len(old) + Cardinality(missing)
           /\ \A k \in 1..Len(old) :
                 new[k] \in {old[k], old[k] \o ROOT, old[k] \o <<",">> \o ROOT}

\* C6: after one call every original record of a probed GID has root as a
\* whole-word member exactly once, appended only if it was no member, and
\* its name, password, gid and other members are what they were.
C6_RootMemberOnce ==
    RanOnce =>
        LET old == LinesOf(orig_group.data)
            new == LinesOf(etc_group.data)
        IN \A k \in 1..Len(old) :
              (\E i \in 1..Len(gpu_gids) : IsRecordOf(old[k], gpu_gids[i])) =>
                  /\ k <= Len(new)
                  /\ CountRoot(new[k]) = 1
                  /\ SubSeq(SplitBy(new[k], ":"), 1, 3)
                        = SubSeq(SplitBy(old[k], ":"), 1, 3)
                  /\ Len(SplitBy(new[k], ":")) = Len(SplitBy(old[k], ":"))
                  /\ Members(new[k]) = IF CountRoot(old[k]) > 0 THEN Members(old[k])
                                       ELSE Append(Members(old[k]), ROOT)

\* C7: a second call with the same GIDs leaves /etc/group as the first call
\* left it: it modifies nothing, renames nothing and removes /etc/group.tmp.
C7_SecondRunChangesNothing ==
    (gg_runs = 2 /\ gg_clean /\ orig_group.exists) =>
        /\ etc_group = first_group
        /\ gg_modified = 0
        /\ ~group_tmp.exists

--------------------------------------------------------------------------
(* Properties of the identity files *)

\* C9: with an empty hostname fix_networking_rootfs calls sethostname not at
\* all, leaves /etc/hostname unwritten and writes an /etc/hosts of the two
\* localhost lines only; with a hostname, /etc/hostname is the hostname and a
\* newline and /etc/hosts the three lines, the last one naming the hostname.
C9_HostnameFiles ==
    net_pc = "done" =>
        IF cfg_hostname = ""
        THEN /\ hostname_calls = <<>>
             /\ ~etc_hostname.exists
             /\ etc_hosts.exists
             /\ etc_hosts.data = "127.0.0.1\tlocalhost\n"
                                 \o "::1\t\tlocalhost ip6-localhost ip6-loopback\n"
        ELSE /\ etc_hostname.exists
             /\ etc_hostname.data = cfg_hostname \o "\n"
             /\ etc_hosts.exists
             /\ etc_hosts.data = "127.0.0.1\tlocalhost\n"
                                 \o "::1\t\tlocalhost ip6-localhost ip6-loopback\n"
                                 \o "127.0.1.1\t" \o cfg_hostname \o "\n"

\* C10: on Android, when no DNS property gives a value, /etc/resolv.conf
\* names the default resolvers 8.8.8.8 and 8.8.4.4; and whatever the
\* properties answer, the first nameserver line has an address (the second
\* line is written only for a non-empty address).
C10_DnsFallback ==
    net_pc = "done" =>
        /\ (android /\ \A n \in PropNames : ~getprop[n].ok \/ getprop[n].value = "")
              => resolv_conf.data = "nameserver 8.8.8.8\nnameserver 8.8.4.4\n"
        /\ resolv_conf.exists
        /\ dns1 # ""

--------------------------------------------------------------------------
(* Properties of the environment *)

\* what setup_container_env is to leave of the environment env
SealedFrom(env) ==
    [n \in {Lit.PATH, Lit.TERM, Lit.HOME, Lit.container} |->
        IF n = Lit.PATH THEN Lit.path
        ELSE IF n = Lit.TERM THEN (IF Lit.TERM \in DOMAIN env THEN env[Lit.TERM] ELSE Lit.xterm)
        ELSE IF n = Lit.HOME THEN Lit.root
        ELSE Lit.droidspaces]

\* C11: after setup_container_env the environment holds exactly PATH (the
\* default search path), TERM (the value it had before the first call, or
\* xterm-256color if it was unset), HOME=/root and container=droidspaces,
\* and a second call leaves the environment the first call produced.
C11_SealedEnvironment ==
    env_last = "seal" =>
        /\ environ = SealedFrom(env_orig)
        /\ env_runs = 2 => environ = env_first

RECURSIVE EmitEnv(_)
\* the text with one KEY=VALUE line for each variable of env
EmitEnv(env) ==
    IF DOMAIN env = {} THEN <<>>
    ELSE LET n == CHOOSE m \in DOMAIN env : TRUE
             rest == [m \in DOMAIN env \ {n} |-> env[m]]
         IN n \o <<"=">> \o env[n] \o <<"\n">> \o EmitEnv(rest)

\* the assignments load_etc_environment makes from the re-emitted text
Reparsed(env) == load_etc_environment(EmptyEnv, File(EmitEnv(env)), TRUE)

\* load_etc_environment has read /etc/environment into an empty environment,
\* so that the environment is the set of assignments of the parse
LoadedFromEmpty == env_last = "load" /\ env_orig = EmptyEnv

\* val begins and ends with the same quote character
IsQuoted(val) ==
    Len(val) >= 2 /\ val[1] = val[Len(val)] /\ val[1] \in {"\"", "'"}

\* C12 as stated: for every /etc/environment, parsing it, writing the
\* resulting variables out as KEY=VALUE lines and parsing that text again
\* gives the assignments of the first parse.
C12_RoundTrip == LoadedFromEmpty => Reparsed(environ) = environ

\* C12 amended: the round trip gives the assignments of the first parse
\* whenever no value of the first parse still begins and ends with the same
\* quote character.
C12_RoundTripUnquoted ==
    (LoadedFromEmpty /\ \A n \in DOMAIN environ : ~IsQuoted(environ[n]))
        => Reparsed(environ) = environ

\* a quoted value was read, its quotes were stripped, and the result is
\* not quoted any more
C12_Witness ==
    /\ LoadedFromEmpty
    /\ DOMAIN environ = {<<"A">>, <<"B">>}
    /\ environ[<<"A">>] = <<"1">>
    /\ environ[<<"B">>] = <<>>
    /\ StrStr(etc_environment.data, <<"A", "=", "'", "1", "'">>, 1) # 0
    /\ StrStr(etc_environment.data, <<"B", "=", "'", "'">>, 1) # 0

\* C19: after ds_env_boot_setup, container_ttys is set exactly when
\* tty_count > 0; its value then has no leading or trailing space and, cut
\* at its spaces, is the list of the slave names in index order (so the
\* names are joined by single spaces); with tty_count = 0 the variable is
\* absent, whether or not it was set before the call.
C19_ContainerTtys ==
    env_last = "boot" =>
        /\ (Lit.container_ttys \in DOMAIN environ) <=> (Len(cfg_ttys) > 0)
        /\ Len(cfg_ttys) > 0 =>
              LET v == environ[Lit.container_ttys]
              IN /\ v # <<>>
                 /\ v[1] # " "
                 /\ v[Len(v)] # " "
                 /\ SplitBy(v, " ") = cfg_ttys

\* six auxiliary TTYs, the variable held a stale value before the call
C19_Witness ==
    /\ env_last = "boot"
    /\ Len(cfg_ttys) = 6
    /\ Lit.container_ttys \in DOMAIN env_orig
    /\ Lit.container_ttys \in DOMAIN environ
    /\ environ[Lit.container_ttys] # env_orig[Lit.container_ttys]

--------------------------------------------------------------------------
(* Properties of the mounts *)

\* C13: a setup step in which a mount failed with an errno other than EBUSY
\* reports failure, and a step whose mounts all succeeded or answered EBUSY
\* reports success; for setup_dev, setup_devpts and setup_cgroups, the
\* eight legacy controller mounts included.
C13_MountFailureIsFatal ==
    \A step \in mnt_ran \cap {"setup_dev", "setup_devpts", "setup_cgroups"} :
        IF step \in mnt_fatal THEN mnt_ret[step] < 0 ELSE mnt_ret[step] = 0

\* setup_dev has returned success for a configuration without hw_access
DevProvisioned ==
    ~hw_access /\ "setup_dev" \in mnt_ran /\ mnt_ret["setup_dev"] = 0

\* C14: for every tty_count in 0..6 without hw_access, once /dev is
\* provisioned a placeholder regular file /dev/tty<i> exists for every i in
\* 1..tty_count, and ds_terminal_setup_ttys finds the bind-mount target of
\* every auxiliary slave.
C14_TtyTargetsExist ==
    DevProvisioned =>
        /\ "setup_ttys" \notin mnt_ran =>
              \A i \in 1..tty_count : dev[TtyTarget(i)].kind = "reg"
        /\ "setup_ttys" \in mnt_ran => tty_notarget = {}

\* C15: whenever setup_dev without hw_access returns success, every
\* character device of the roster is under <rootfs>/dev as a character
\* device with its major:minor or as a bind mount of the host node of the
\* same name, whatever mknod and the bind-mount fallback answered.
C15_RosterPresent ==
    (DevProvisioned /\ "setup_ttys" \notin mnt_ran) =>
        \A i \in 1..Len(devices) :
            devices[i].mode = "S_IFCHR" =>
                \/ dev[devices[i].name] = Node("chr", devices[i].major, devices[i].minor, "")
                \/ dev[devices[i].name] = Node("bind", 0, 0, "/dev/" \o devices[i].name)

--------------------------------------------------------------------------
(* Properties of the /etc/group replacement *)

\* C20: when setup_gpu_groups has returned, /etc/group holds what it held
\* before the call or the complete rewritten content, and there is no
\* /etc/group.tmp, also when a write to the temporary file or the
\* allocation after its creation failed.
C20_WholeOrOriginal ==
    gg_runs = 1 =>
        /\ \/ etc_group = orig_group
           \/ etc_group = File(Rewritten(orig_group.data, gpu_gids).out)
        /\ ~group_tmp.exists

\* C17: every change the bring-up makes to /etc/group replaces the whole
\* file at once, so that whoever reads it finds the complete content from
\* before the change or the complete new content: after the Android
\* network-group step the old content or the old content with the three
\* aid_ records, after the GPU group reconciliation the old content or the
\* complete rewritten content.
C17_GroupFileAtomic ==
    /\ net_pc = "done" =>
          etc_group \in {orig_group, File(orig_group.data \o AidGroupLines)}
    /\ gg_runs = 1 =>
          etc_group \in {orig_group, File(Rewritten(orig_group.data, gpu_gids).out)}

--------------------------------------------------------------------------
(* Properties of the hardware bridge *)

\* C16: setup_hardware_access returns 0 whatever its sub-steps answer; the
\* GPU group reconciliation is attempted exactly when hw_access is set and
\* the socket bridge exactly when hw_access or termux_x11 is set, also
\* after a failed reconciliation, and a failure of the bridge is not
\* returned; with neither option set, nothing is touched.
C16_HardwareAccessNonFatal ==
    hwa_pc = "done" =>
        /\ hwa_ret = 0
        /\ gg_runs = (IF hw_access THEN 1 ELSE 0)
        /\ x11_calls = (IF hw_access \/ termux_x11 THEN 1 ELSE 0)
        /\ (~hw_access /\ ~termux_x11) =>
              /\ etc_group = orig_group
              /\ group_tmp = NoFile
              /\ x11_mounted = ""

\* the reconciliation failed at the rename, the bridge was attempted after
\* it and failed as well
C16_Witness ==
    /\ hwa_pc = "done"
    /\ hw_access
    /\ gg_fault = "rename"
    /\ gg_ret = -1
    /\ x11_calls = 1
    /\ x11_ret = -1
    /\ hwa_ret = 0

--------------------------------------------------------------------------
(* Properties of the bring-up order *)

\* C18: in every bring-up run the GPU GID scan runs and ends before
\* pivot_root, the GPU group reconciliation runs after pivot_root and is
\* handed exactly the GIDs that scan collected, and no scan runs after
\* pivot_root.
C18_ScanBeforePivotReconcileAfter ==
    /\ ~scanned_late
    /\ ~recon_early
    /\ pivoted => scan_pc = "done"
    /\ hwa_pc = "done" =>
          /\ pivoted
          /\ gpu_gids = SubSeq(gids, 1, scan_ret)

\* a run that reached exec with hw_access, two GIDs captured and the
\* reconciliation done
C18_Witness ==
    /\ boot_stage = Len(BootOrder) + 1
    /\ hw_access
    /\ scan_ret = 2
    /\ gg_runs = 1
    /\ gg_fault = "none"
    /\ pivoted

====
